---- MODULE Spec2Model ----
(***************************************************************************)
(* Contact-form Worker (middleware/src/index.js): the fetch handler, its   *)
(* helpers, the RATE_LIMITER key-value store, the Turnstile verifier and   *)
(* the SES sender, as a state machine.  A request advances from one await  *)
(* of the handler to the next; concurrent requests interleave at awaits.   *)
(***************************************************************************)
EXTENDS Integers, Sequences, FiniteSets, TLC

VARIABLES
  store,     \* RATE_LIMITER: key -> NULL or [value, ttl]
  reqs,      \* one record per request slot: the handler's locals and effects
  started,   \* scenario specifications: submissions started so far
  emails,    \* scenario specifications: SES sends completed so far
  faulted,   \* scenario specifications: a collaborator has thrown
  overlap,   \* scenario specifications: most requests ever in flight together
  rejected,  \* scenario specifications: the last malformed-payload rejection
  age        \* scenario specifications: time since the entry's first and last write

vars == <<store, reqs, started, emails, faulted, overlap, rejected, age>>

(***************************************************************************)
(* Bounds of the model.                                                    *)
(***************************************************************************)
MaxInFlight == 2
MaxStarted == 7
MaxEmails == 8
TicksPerWindow == 3
MaxAge == 7

(***************************************************************************)
(* Program constants.                                                      *)
(***************************************************************************)
ALLOWED_ORIGINS ==
  {"https://raduhhr.xyz", "https://www.raduhhr.xyz", "https://cf-form-page.pages.dev"}

ALLOWED_TURNSTILE_HOSTNAMES ==
  {"raduhhr.xyz", "www.raduhhr.xyz", "cf-form-page.pages.dev"}

MAX_BODY_BYTES == 10000
RATE_LIMIT_MAX == 5
RATE_LIMIT_WINDOW == 3600

\* JavaScript's null / undefined, as a value apart from every string.
NULL == "<null>"

(***************************************************************************)
(* Strings that the code measures or matches are sequences of characters.  *)
(***************************************************************************)
Rep(c, n) == [i \in 1..n |-> c]

Lower == {"a","b","c","d","e","f","g","h","i","j","k","l","m",
          "n","o","p","q","r","s","t","u","v","w","x","y","z"}
Upper == {"A","B","C","D","E","F","G","H","I","J","K","L","M",
          "N","O","P","Q","R","S","T","U","V","W","X","Y","Z"}
Digit == {"0","1","2","3","4","5","6","7","8","9"}
Alnum == Lower \cup Upper \cup Digit

\* The grave accent, which a string literal cannot hold.
Grave == "grave"

\* the character class of the pattern's local part
LocalChars ==
  Alnum \cup {".","!","#","$","%","&","'","*","+","/","=","?","^","_",Grave,"{","|","}","~","-"}

\* String.prototype.trim: white space and line terminators
WhiteSpace == {" ", "\t", "\n", "\r"}

RECURSIVE TrimStart(_)
TrimStart(s) ==
  IF s = <<>> \/ Head(s) \notin WhiteSpace THEN s ELSE TrimStart(Tail(s))

RECURSIVE TrimEnd(_)
TrimEnd(s) ==
  IF s = <<>> \/ s[Len(s)] \notin WhiteSpace THEN s
  ELSE TrimEnd(SubSeq(s, 1, Len(s) - 1))

trim(s) == TrimEnd(TrimStart(s))

IndexOf(s, c) ==
  IF \E i \in 1..Len(s) : s[i] = c
  THEN CHOOSE i \in 1..Len(s) : s[i] = c /\ \A j \in 1..(i - 1) : s[j] # c
  ELSE 0

\* [a-zA-Z0-9](?:[a-zA-Z0-9-]{0,61}[a-zA-Z0-9])?
LabelOK(l) ==
  /\ Len(l) >= 1
  /\ Len(l) <= 63
  /\ l[1] \in Alnum
  /\ l[Len(l)] \in Alnum
  /\ \A i \in 1..Len(l) : l[i] \in Alnum \cup {"-"}

\* label(?:\.label)*$
RECURSIVE DomainOK(_)
DomainOK(d) ==
  LET i == IndexOf(d, ".")
  IN  IF i = 0 THEN LabelOK(d)
      ELSE LabelOK(SubSeq(d, 1, i - 1)) /\ DomainOK(SubSeq(d, i + 1, Len(d)))

PatternTest(email) ==
  LET at == IndexOf(email, "@")
  IN  /\ at > 1
      /\ \A i \in 1..(at - 1) : email[i] \in LocalChars
      /\ DomainOK(SubSeq(email, at + 1, Len(email)))

isValidEmail(email) ==
  IF Len(email) > 254 \/ Len(email) < 3 THEN FALSE
  ELSE IF \E i \in 1..Len(email) : email[i] \in {"\r", "\n", "\t"} THEN FALSE
  ELSE PatternTest(email)

(***************************************************************************)
(* Numbers and their decimal strings: String(n) and parseInt(s).           *)
(***************************************************************************)
NumStr == <<"0","1","2","3","4","5","6","7","8","9","10","11","12">>

String(n) == NumStr[n + 1]

\* parseInt(s): a number, or NaN (for null and for what is no decimal string)
parseInt(s) ==
  IF \E n \in 0..(Len(NumStr) - 1) : NumStr[n + 1] = s
  THEN [nan |-> FALSE, n |-> CHOOSE n \in 0..(Len(NumStr) - 1) : NumStr[n + 1] = s]
  ELSE [nan |-> TRUE, n |-> 0]

\* p >= k: false of NaN
NumGE(p, k) == ~p.nan /\ p.n >= k

\* p || 0
OrZero(p) == IF p.nan \/ p.n = 0 THEN 0 ELSE p.n

\* a string in a boolean position: null and "" are falsy
TruthyStr(s) == s \notin {NULL, ""}

(***************************************************************************)
(* Response headers: a set of <<name, value>> pairs; spreading b over a    *)
(* keeps b's value of a name both hold.                                    *)
(***************************************************************************)
Spread(a, b) == b \cup {p \in a : \A q \in b : q[1] # p[1]}

FixedCorsHeaders ==
  { <<"Access-Control-Allow-Methods", "POST, OPTIONS">>,
    <<"Access-Control-Allow-Headers", "Content-Type">>,
    <<"Access-Control-Max-Age", "86400">>,
    <<"Vary", "Origin">> }

\* Mutant of buildCorsHeaders: the origin is never echoed.
buildCorsHeaders_NoEcho(origin) == FixedCorsHeaders

buildCorsHeaders(origin) ==
  IF origin # "" /\ origin \in ALLOWED_ORIGINS
  THEN Spread(FixedCorsHeaders, {<<"Access-Control-Allow-Origin", origin>>})
  ELSE FixedCorsHeaders

buildSecurityHeaders ==
  { <<"X-Content-Type-Options", "nosniff">>,
    <<"X-Frame-Options", "DENY">>,
    <<"X-XSS-Protection", "1; mode=block">>,
    <<"Referrer-Policy", "strict-origin-when-cross-origin">>,
    <<"Content-Security-Policy", "default-src 'none'; frame-ancestors 'none';">> }

NoHeaders == {}

json(kind, text, status, extraHeaders) ==
  [ status  |-> status,
    kind    |-> kind,
    text    |-> text,
    headers |-> Spread({<<"Content-Type", "application/json; charset=utf-8">>},
                       extraHeaders) ]

\* new Response(null, {status, headers})
EmptyResponse(status, headers) ==
  [status |-> status, kind |-> "none", text |-> "", headers |-> headers]

NoResponse == [status |-> 0, kind |-> "none", text |-> "", headers |-> NoHeaders]

(***************************************************************************)
(* Request bodies.  A body is its length and what JSON.parse makes of it;  *)
(* a field of the payload is undefined, a string, a falsy non-string       *)
(* (0, false, null) or a truthy non-string (a number, true, an array).     *)
(***************************************************************************)
Undefined == [t |-> "undefined", s |-> <<>>]
Str(s) == [t |-> "string", s |-> s]
Falsy == [t |-> "falsy", s |-> <<>>]
TruthyOther == [t |-> "truthy", s |-> <<>>]

Obj(n, e, m, k) ==
  [k |-> "object", name |-> n, email |-> e, message |-> m, turnstileToken |-> k]
JsonNull == [k |-> "null", name |-> Undefined, email |-> Undefined,
             message |-> Undefined, turnstileToken |-> Undefined]
\* a number, a string, a boolean or an array: every property read is undefined
JsonOther == [k |-> "other", name |-> Undefined, email |-> Undefined,
              message |-> Undefined, turnstileToken |-> Undefined]
SyntaxError == [k |-> "SyntaxError", name |-> Undefined, email |-> Undefined,
                message |-> Undefined, turnstileToken |-> Undefined]

Body(len, parsed) == [rawLen |-> len, parsed |-> parsed]

\* (v || "").trim(): a string, or a TypeError when v is a truthy non-string
OrEmptyThrows(v) == v.t = "truthy"
OrEmptyTrim(v) == IF v.t = "string" THEN trim(v.s) ELSE <<>>

\* Lines 96-154 of fetch: the outcome of the body checks.
\*   [k |-> "reject", status, error] | [k |-> "throw"] | [k |-> "pass"]
Reject(status, error) == [k |-> "reject", status |-> status, error |-> error]
Thrown == [k |-> "throw", status |-> 0, error |-> ""]
Pass == [k |-> "pass", status |-> 0, error |-> ""]

\* Mutant of FieldChecks: the message rule is tried before the name rule, and
\* a name of 2 characters is refused.
FieldChecks_Reordered(name, email, message, turnstileToken) ==
  IF name = <<>> \/ email = <<>> \/ message = <<>> \/ turnstileToken = <<>>
  THEN Reject(400, "All fields are required")
  ELSE IF Len(message) < 10 \/ Len(message) > 2000
  THEN Reject(400, "Message must be between 10 and 2000 characters")
  ELSE IF Len(name) <= 2 \/ Len(name) > 100
  THEN Reject(400, "Name must be between 2 and 100 characters")
  ELSE IF ~isValidEmail(email)
  THEN Reject(400, "Invalid email address")
  ELSE Pass

FieldChecks(name, email, message, turnstileToken) ==
  IF name = <<>> \/ email = <<>> \/ message = <<>> \/ turnstileToken = <<>>
  THEN Reject(400, "All fields are required")
  ELSE IF Len(name) < 2 \/ Len(name) > 100
  THEN Reject(400, "Name must be between 2 and 100 characters")
  ELSE IF ~isValidEmail(email)
  THEN Reject(400, "Invalid email address")
  ELSE IF Len(message) < 10 \/ Len(message) > 2000
  THEN Reject(400, "Message must be between 10 and 2000 characters")
  ELSE Pass

BodyChecks(body) ==
  LET payload == body.parsed
  IN  IF body.rawLen > MAX_BODY_BYTES THEN Reject(413, "Payload too large")
      ELSE IF payload.k = "SyntaxError" THEN Reject(400, "Invalid JSON")
      ELSE IF payload.k = "null" THEN Thrown
      ELSE IF \/ OrEmptyThrows(payload.name)
              \/ OrEmptyThrows(payload.email)
              \/ OrEmptyThrows(payload.message)
              \/ OrEmptyThrows(payload.turnstileToken)
      THEN Thrown
      ELSE FieldChecks(OrEmptyTrim(payload.name), OrEmptyTrim(payload.email),
                       OrEmptyTrim(payload.message),
                       OrEmptyTrim(payload.turnstileToken))

(***************************************************************************)
(* The request bodies the model submits.                                   *)
(***************************************************************************)
Jo == <<"J","o">>
JoMail == <<"j","o","@","e","x","a","m","p","l","e",".","c","o","m">>
ShortMail == <<"a","@","b",".","c","o">>
Tok == <<"t","o","k">>
Pad(s) == <<" ", "\t">> \o s \o <<"\n", " ">>
GoodBody(n, e, m) == Body(300, Obj(Str(n), Str(e), Str(m), Str(Tok)))

Bodies == <<
  \* 1-3: well-formed
  GoodBody(Jo, JoMail, Rep("x", 24)),
  Body(MAX_BODY_BYTES, Obj(Str(Rep("n", 100)), Str(ShortMail), Str(Rep("m", 2000)),
                           Str(Pad(Tok)))),
  GoodBody(Pad(Jo), Pad(ShortMail), Pad(Rep("m", 10))),
  \* 4-5: over the size limit, not JSON
  Body(MAX_BODY_BYTES + 1, Obj(Str(Jo), Str(JoMail), Str(Rep("x", 24)), Str(Tok))),
  Body(20, SyntaxError),
  \* 6-9: a field absent or empty after trimming
  Body(300, Obj(Str(Jo), Str(JoMail), Undefined, Str(Tok))),
  Body(300, Obj(Str(<<" ", " ">>), Str(JoMail), Str(Rep("x", 24)), Str(Tok))),
  Body(300, Obj(Str(Jo), Str(JoMail), Str(Rep("x", 24)), Str(<<>>))),
  Body(300, Obj(Falsy, Str(JoMail), Str(Rep("x", 24)), Str(Tok))),
  \* 10-11: name of 1 and of 101 characters
  GoodBody(<<"J">>, JoMail, Rep("x", 24)),
  GoodBody(Rep("n", 101), JoMail, Rep("x", 24)),
  \* 12-14: email with a line feed, without @, with a label ending in -
  GoodBody(Jo, <<"a","\n","@","b",".","c","o">>, Rep("x", 24)),
  GoodBody(Jo, <<"a","b",".","c","o">>, Rep("x", 24)),
  GoodBody(Jo, <<"a","@","b","-",".","c","o">>, Rep("x", 24)),
  \* 15-16: message of 9 and of 2001 characters
  GoodBody(Jo, JoMail, Rep("m", 9)),
  GoodBody(Jo, JoMail, Rep("m", 2001)),
  \* 17-19: several rules fail at once
  GoodBody(<<"J">>, <<"a","b">>, Rep("m", 9)),
  GoodBody(Jo, <<"a","b">>, Rep("m", 9)),
  GoodBody(Pad(<<"J">>), JoMail, Pad(Rep("m", 9))),
  \* 20-22: JSON that is no object of strings
  Body(4, JsonNull),
  Body(2, JsonOther),
  Body(300, Obj(TruthyOther, Str(JoMail), Str(Rep("x", 24)), Str(Tok)))
>>

BodyIds == 1..Len(Bodies)
NoBody == 0

(***************************************************************************)
(* The collaborators' answers.                                             *)
(***************************************************************************)
Bindings ==
  {"TURNSTILE_SECRET_KEY", "AWS_ACCESS_KEY_ID", "AWS_SECRET_ACCESS_KEY", "RATE_LIMITER"}

\* What the siteverify call does: throws, answers with a non-OK status,
\* answers with a body that is no JSON, or answers {success, hostname}.
Verdict(k, success, hostname) == [k |-> k, success |-> success, hostname |-> hostname]
NoVerdict == Verdict("none", FALSE, NULL)

validateTurnstileToken(answer) ==
  IF answer.k \in {"throw", "notok", "badjson"}
  THEN [success |-> FALSE, hostname |-> NULL]
  ELSE [success |-> answer.success, hostname |-> answer.hostname]

(***************************************************************************)
(* A request slot: the handler's locals at its current await, the response *)
(* it returned, and the calls it has made.                                 *)
(*   pc: idle, get (RATE_LIMITER.get pending), text (request.text()        *)
(*   pending), verify, send, put, done (the response is being returned)    *)
(***************************************************************************)
Idle ==
  [ pc |-> "idle", origin |-> "", method |-> "", env |-> {}, ip |-> "",
    body |-> NoBody, count |-> NULL, verdict |-> NoVerdict, resp |-> NoResponse,
    gets |-> 0, puts |-> 0, verifies |-> 0, sends |-> 0, threw |-> "none" ]

Reqs == 1..MaxInFlight

rateLimitKey(ip) == "ratelimit:" \o ip

\* request.headers.get("CF-Connecting-IP") || "unknown"
ClientIp(header) == IF header = "" THEN "unknown" ELSE header

\* { ...corsHeaders, ...securityHeaders }
Headers(origin) == Spread(buildCorsHeaders(origin), buildSecurityHeaders)

Done(q, resp) == [q EXCEPT !.pc = "done", !.resp = resp]

\* Mutant of catch: the error is thrown on, no response is built.
catch_Rethrow(q, who) == [Done(q, NoResponse) EXCEPT !.threw = who]

\* catch (error) { return json(..., 500, ...) }
catch(q, who) ==
  [ Done(q, json("error", "Failed to send email. Please try again later.", 500,
                 Headers(q.origin)))
    EXCEPT !.threw = who ]

(***************************************************************************)
(* fetch, one await at a time: what a request slot becomes.                *)
(***************************************************************************)
\* Mutant of AfterArrive: the origin check of lines 48-50 is missing.
AfterArrive_NoOriginCheck(origin, method, env, ipHeader, body) ==
  LET q == [Idle EXCEPT !.origin = origin, !.method = method, !.env = env,
                        !.ip = ClientIp(ipHeader), !.body = body]
  IN  IF method = "OPTIONS"
      THEN Done(q, EmptyResponse(204, Headers(origin)))
      ELSE IF method # "POST"
      THEN Done(q, json("error", "Method Not Allowed", 405, Headers(origin)))
      ELSE IF ~(Bindings \subseteq env) THEN catch(q, "env")
      ELSE [q EXCEPT !.pc = "get"]

\* Lines 45-81: origin, preflight, method, environment.
\* body: the body the request carries, NoBody while the model has not fixed it.
AfterArrive(origin, method, env, ipHeader, body) ==
  LET q == [Idle EXCEPT !.origin = origin, !.method = method, !.env = env,
                        !.ip = ClientIp(ipHeader), !.body = body]
  IN  IF origin # "" /\ origin \notin ALLOWED_ORIGINS
      THEN Done(q, json("error", "Forbidden origin", 403, NoHeaders))
      ELSE IF method = "OPTIONS"
      THEN IF origin # "" /\ origin \notin ALLOWED_ORIGINS
           THEN Done(q, EmptyResponse(403, NoHeaders))
           ELSE Done(q, EmptyResponse(204, Headers(origin)))
      ELSE IF method # "POST"
      THEN Done(q, json("error", "Method Not Allowed", 405, Headers(origin)))
      ELSE IF ~(Bindings \subseteq env) THEN catch(q, "env")
      ELSE [q EXCEPT !.pc = "get"]

\* Mutant of AfterGet: > where the code has >=.
AfterGet_StrictlyGreater(q, submissionCount) ==
  LET q1 == [q EXCEPT !.count = submissionCount, !.gets = @ + 1]
  IN  IF TruthyStr(submissionCount)
         /\ NumGE(parseInt(submissionCount), RATE_LIMIT_MAX + 1)
      THEN Done(q1, json("error", "Rate limit exceeded. Please try again in an hour.",
                         429, Headers(q.origin)))
      ELSE [q1 EXCEPT !.pc = "text"]

\* Lines 85-93: the value RATE_LIMITER.get resolved with.
AfterGet(q, submissionCount) ==
  LET q1 == [q EXCEPT !.count = submissionCount, !.gets = @ + 1]
  IN  IF TruthyStr(submissionCount) /\ NumGE(parseInt(submissionCount), RATE_LIMIT_MAX)
      THEN Done(q1, json("error", "Rate limit exceeded. Please try again in an hour.",
                         429, Headers(q.origin)))
      ELSE [q1 EXCEPT !.pc = "text"]

BodyOutcome == [b \in BodyIds |-> BodyChecks(Bodies[b])]

\* Mutant of AfterText: the verifier is called before the fields are checked.
AfterText_VerifyFirst(q, b) ==
  LET q1 == [q EXCEPT !.body = b, !.verifies = @ + 1]
      c == BodyOutcome[b]
  IN  IF c.k = "reject" THEN Done(q1, json("error", c.error, c.status, Headers(q.origin)))
      ELSE IF c.k = "throw" THEN catch(q1, "payload")
      ELSE [q1 EXCEPT !.pc = "verify"]

\* Lines 96-154: the body request.text() resolved with.
AfterText(q, b) ==
  LET q1 == [q EXCEPT !.body = b]
      c == BodyOutcome[b]
  IN  IF c.k = "reject" THEN Done(q1, json("error", c.error, c.status, Headers(q.origin)))
      ELSE IF c.k = "throw" THEN catch(q1, "payload")
      ELSE [q1 EXCEPT !.pc = "verify"]

\* Mutant of AfterVerify: what the siteverify call throws is not caught
\* by validateTurnstileToken and reaches the handler's catch.
AfterVerify_Uncaught(q, answer) ==
  LET q1 == [q EXCEPT !.verdict = answer, !.verifies = @ + 1]
      turnstile == validateTurnstileToken(answer)
      verifiedHostname == IF TruthyStr(turnstile.hostname) THEN turnstile.hostname ELSE ""
  IN  IF answer.k \in {"throw", "badjson"} THEN catch(q1, "verify")
      ELSE IF ~turnstile.success
      THEN Done(q1, json("error", "Security verification failed", 400, Headers(q.origin)))
      ELSE IF verifiedHostname \notin ALLOWED_TURNSTILE_HOSTNAMES
      THEN Done(q1, json("error", "Invalid verification context", 400, Headers(q.origin)))
      ELSE [q1 EXCEPT !.pc = "send"]

\* Mutant of AfterVerify: success is not looked at, only the hostname.
AfterVerify_NoSuccessCheck(q, answer) ==
  LET q1 == [q EXCEPT !.verdict = answer, !.verifies = @ + 1]
      turnstile == validateTurnstileToken(answer)
      verifiedHostname == IF TruthyStr(turnstile.hostname) THEN turnstile.hostname ELSE ""
  IN  IF verifiedHostname \notin ALLOWED_TURNSTILE_HOSTNAMES
      THEN Done(q1, json("error", "Invalid verification context", 400, Headers(q.origin)))
      ELSE [q1 EXCEPT !.pc = "send"]

\* Mutant of AfterVerify: the hostname check of lines 171-178 is missing.
AfterVerify_NoHostnameCheck(q, answer) ==
  LET q1 == [q EXCEPT !.verdict = answer, !.verifies = @ + 1]
      turnstile == validateTurnstileToken(answer)
  IN  IF ~turnstile.success
      THEN Done(q1, json("error", "Security verification failed", 400, Headers(q.origin)))
      ELSE [q1 EXCEPT !.pc = "send"]

\* Lines 157-178: the answer of the siteverify call.
AfterVerify(q, answer) ==
  LET q1 == [q EXCEPT !.verdict = answer, !.verifies = @ + 1]
      turnstile == validateTurnstileToken(answer)
      verifiedHostname == IF TruthyStr(turnstile.hostname) THEN turnstile.hostname ELSE ""
  IN  IF ~turnstile.success
      THEN Done(q1, json("error", "Security verification failed", 400, Headers(q.origin)))
      ELSE IF verifiedHostname \notin ALLOWED_TURNSTILE_HOSTNAMES
      THEN Done(q1, json("error", "Invalid verification context", 400, Headers(q.origin)))
      ELSE [q1 EXCEPT !.pc = "send"]

\* Mutant of AfterSend: a rejected send is tried once more.
AfterSend_RetryOnce(q, ok) ==
  LET q1 == [q EXCEPT !.sends = @ + 1]
  IN  IF ok THEN [q1 EXCEPT !.pc = "put"]
      ELSE IF q.sends = 0 THEN q1
      ELSE catch(q1, "send")

\* Mutant of AfterSend: a rejected send is swallowed and the handler goes on.
AfterSend_IgnoreFailure(q, ok) ==
  [q EXCEPT !.sends = @ + 1, !.pc = "put", !.threw = IF ok THEN @ ELSE "send"]

\* Line 231: sesClient.send resolved (ok) or rejected.
AfterSend(q, ok) ==
  LET q1 == [q EXCEPT !.sends = @ + 1]
  IN  IF ok THEN [q1 EXCEPT !.pc = "put"] ELSE catch(q1, "send")

\* Mutant of newCount: the increment is missing.
newCount_NoIncrement(q) == OrZero(parseInt(q.count))

\* Line 234
newCount(q) == OrZero(parseInt(q.count)) + 1

\* Lines 235-245: RATE_LIMITER.put resolved (ok) or rejected.
AfterPut(q, ok) ==
  LET q1 == [q EXCEPT !.puts = @ + 1]
  IN  IF ok
      THEN Done(q1, json("success", "Email sent successfully!", 200, Headers(q.origin)))
      ELSE catch(q1, "put")

(***************************************************************************)
(* The key-value store.                                                    *)
(***************************************************************************)
NoEntry == [value |-> NULL, ttl |-> 0]
Entry(value, expirationTtl) == [value |-> value, ttl |-> expirationTtl]

kvGet(key) == store[key].value
kvPut(key, value, expirationTtl) == [store EXCEPT ![key] = Entry(value, expirationTtl)]

(***************************************************************************)
(* Inputs.                                                                 *)
(***************************************************************************)
Origins == {"", "https://raduhhr.xyz", "https://evil.example"}
Methods == {"POST", "OPTIONS", "GET"}
Envs == {Bindings} \cup {Bindings \ {b} : b \in Bindings}
\* CF-Connecting-IP: absent ("") or an address
IpHeaders == {"", "203.0.113.7"}
AddressHeaders == IpHeaders \ {""}
Keys == {rateLimitKey(ClientIp(h)) : h \in IpHeaders}
VerifierAnswers ==
  { Verdict("throw", FALSE, NULL), Verdict("notok", FALSE, NULL),
    Verdict("badjson", FALSE, NULL), Verdict("json", FALSE, NULL),
    Verdict("json", FALSE, "raduhhr.xyz"), Verdict("json", TRUE, NULL),
    Verdict("json", TRUE, "evil.example"), Verdict("json", TRUE, "raduhhr.xyz") }

(***************************************************************************)
(* Actions.  A response is observed in the state that returns it: while a  *)
(* slot is done, only Return moves.                                        *)
(***************************************************************************)
NoneDone == \A r \in Reqs : reqs[r].pc # "done"

\* Slot 1 is the request under observation: it keeps its inputs, its calls
\* and its response.  Of the other slots the model keeps what the handler
\* still reads and that bears on the store (pc, ip, submissionCount); what
\* they return is dropped.
Observed == CHOOSE r \in Reqs : \A s \in Reqs : r <= s
Keep(r, q) ==
  IF r = Observed THEN q
  ELSE IF q.pc = "done" THEN Idle
  ELSE [Idle EXCEPT !.pc = q.pc, !.ip = q.ip, !.count = q.count]
InFlight == {r \in Reqs : reqs[r].pc \notin {"idle", "done"}}

ArriveStep(r, origin, method, env, ipHeader, body) ==
  /\ NoneDone
  /\ reqs[r].pc = "idle"
  /\ reqs' = [reqs EXCEPT ![r] = Keep(r, AfterArrive(origin, method, env, ipHeader, body))]
  /\ UNCHANGED store

\* Mutant of GetStep: the key read does not carry the client's identity.
GetStep_SharedKey(r, ok) ==
  /\ NoneDone
  /\ reqs[r].pc = "get"
  /\ reqs' = [reqs EXCEPT ![r] =
                Keep(r, IF ok THEN AfterGet(@, kvGet(rateLimitKey("unknown")))
                        ELSE catch([@ EXCEPT !.gets = @ + 1], "get"))]
  /\ UNCHANGED store

GetStep(r, ok) ==
  /\ NoneDone
  /\ reqs[r].pc = "get"
  /\ reqs' = [reqs EXCEPT ![r] =
                Keep(r, IF ok THEN AfterGet(@, kvGet(rateLimitKey(@.ip)))
                        ELSE catch([@ EXCEPT !.gets = @ + 1], "get"))]
  /\ UNCHANGED store

TextStep(r, b) ==
  /\ NoneDone
  /\ reqs[r].pc = "text"
  /\ reqs[r].body \in {NoBody, b}
  /\ reqs' = [reqs EXCEPT ![r] = Keep(r, AfterText(@, b))]
  /\ UNCHANGED store

VerifyStep(r, answer) ==
  /\ NoneDone
  /\ reqs[r].pc = "verify"
  /\ reqs' = [reqs EXCEPT ![r] = Keep(r, AfterVerify(@, answer))]
  /\ UNCHANGED store

SendStep(r, ok) ==
  /\ NoneDone
  /\ reqs[r].pc = "send"
  /\ reqs' = [reqs EXCEPT ![r] = Keep(r, AfterSend(@, ok))]
  /\ UNCHANGED store

\* Mutant of PutStep: an existing entry keeps the expiration it has; only a
\* new entry gets the full window.
PutStep_FixedWindow(r, ok) ==
  /\ NoneDone
  /\ reqs[r].pc = "put"
  /\ reqs' = [reqs EXCEPT ![r] = Keep(r, AfterPut(@, ok))]
  /\ store' = IF ok
              THEN kvPut(rateLimitKey(reqs[r].ip), String(newCount(reqs[r])),
                         IF store[rateLimitKey(reqs[r].ip)] = NoEntry
                         THEN RATE_LIMIT_WINDOW
                         ELSE store[rateLimitKey(reqs[r].ip)].ttl)
              ELSE store

PutStep(r, ok) ==
  /\ NoneDone
  /\ reqs[r].pc = "put"
  /\ reqs' = [reqs EXCEPT ![r] = Keep(r, AfterPut(@, ok))]
  /\ store' = IF ok
              THEN kvPut(rateLimitKey(reqs[r].ip), String(newCount(reqs[r])),
                         RATE_LIMIT_WINDOW)
              ELSE store

ReturnStep(r) ==
  /\ reqs[r].pc = "done"
  /\ reqs' = [reqs EXCEPT ![r] = Idle]
  /\ UNCHANGED store

\* The TTL of an entry runs out.
ExpireStep(key) ==
  /\ NoneDone
  /\ store[key] # NoEntry
  /\ store' = [store EXCEPT ![key] = NoEntry]
  /\ UNCHANGED reqs

obs == <<started, emails, faulted, overlap, rejected, age>>
NoRejection == [ip |-> "", body |-> NoBody, status |-> 0, text |-> ""]
NoAge == [first |-> 0, last |-> 0]

Init ==
  /\ store = [k \in Keys |-> NoEntry]
  /\ reqs = [r \in Reqs |-> Idle]
  /\ started = 0
  /\ emails = 0
  /\ faulted = FALSE
  /\ overlap = 0
  /\ rejected = NoRejection
  /\ age = NoAge

(***************************************************************************)
(* Spec: any requests of one client address, any interleaving,             *)
(* collaborators that may fail, entries that may expire.                   *)
(***************************************************************************)
Arrive ==
  \E r \in Reqs, origin \in Origins, method \in Methods, env \in Envs,
     h \in AddressHeaders :
    ArriveStep(r, origin, method, env, h, NoBody) /\ UNCHANGED obs
Get == \E r \in Reqs, ok \in BOOLEAN : GetStep(r, ok) /\ UNCHANGED obs
Text == \E r \in Reqs, b \in BodyIds : TextStep(r, b) /\ UNCHANGED obs
Verify == \E r \in Reqs, a \in VerifierAnswers : VerifyStep(r, a) /\ UNCHANGED obs
Send == \E r \in Reqs, ok \in BOOLEAN : SendStep(r, ok) /\ UNCHANGED obs
Put == \E r \in Reqs, ok \in BOOLEAN : PutStep(r, ok) /\ UNCHANGED obs
Return == \E r \in Reqs : ReturnStep(r) /\ UNCHANGED obs
Expire == \E k \in Keys : ExpireStep(k) /\ UNCHANGED obs

Next == Arrive \/ Get \/ Text \/ Verify \/ Send \/ Put \/ Return \/ Expire

Spec == Init /\ [][Next]_vars

(***************************************************************************)
(* The observed request.                                                   *)
(***************************************************************************)
o == reqs[Observed]
Returned == o.pc = "done"
HeaderOf(resp, name) ==
  IF \E p \in resp.headers : p[1] = name
  THEN (CHOOSE p \in resp.headers : p[1] = name)[2]
  ELSE NULL
NoCalls == o.gets = 0 /\ o.puts = 0 /\ o.verifies = 0 /\ o.sends = 0
ForbiddenOrigin(origin) == origin # "" /\ origin \notin ALLOWED_ORIGINS
ohKey == rateLimitKey(o.ip)

\* C1: a request whose Origin header is not in the allow-list is answered
\* 403, whatever its method, the configuration and the stored count.
C1_ForbiddenOriginIs403 ==
  (Returned /\ ForbiddenOrigin(o.origin)) => o.resp.status = 403

C1_Witness ==
  /\ Returned
  /\ ForbiddenOrigin(o.origin)
  /\ o.method = "OPTIONS"
  /\ o.env # Bindings
  /\ store[ohKey].value = String(RATE_LIMIT_MAX)
  /\ o.resp.status = 403

\* C5: every response, on every path, carries the fixed CORS headers and
\* the security headers.
C5_EveryResponseCarriesHeaders ==
  Returned =>
    /\ FixedCorsHeaders \subseteq o.resp.headers
    /\ buildSecurityHeaders \subseteq o.resp.headers

\* C7: a verifier answer success:true whose hostname is absent or not in the
\* hostname allow-list is answered 400, with no email and no counter write.
C7_HostnameMismatchIs400 ==
  ( /\ Returned
    /\ o.verdict.k = "json"
    /\ o.verdict.success
    /\ (o.verdict.hostname = NULL \/ o.verdict.hostname \notin ALLOWED_TURNSTILE_HOSTNAMES) )
  => (o.resp.status = 400 /\ o.sends = 0 /\ o.puts = 0)

C7_Witness ==
  /\ Returned
  /\ o.verdict = Verdict("json", TRUE, "evil.example")
  /\ o.resp.status = 400
  /\ o.resp.text = "Invalid verification context"

\* C8: OPTIONS from an allow-listed origin is answered 204 without a body
\* and with Access-Control-Allow-Origin equal to the origin; OPTIONS from
\* another origin is answered 403; neither reads or writes the store, calls
\* the verifier or sends an email.
C8_Preflight ==
  (Returned /\ o.method = "OPTIONS" /\ o.origin # "") =>
    /\ NoCalls
    /\ IF o.origin \in ALLOWED_ORIGINS
       THEN /\ o.resp.status = 204
            /\ o.resp.kind = "none"
            /\ HeaderOf(o.resp, "Access-Control-Allow-Origin") = o.origin
       ELSE o.resp.status = 403

C8_Witness ==
  /\ Returned
  /\ o.method = "OPTIONS"
  /\ o.origin \in ALLOWED_ORIGINS
  /\ o.env # Bindings
  /\ store[ohKey].value = String(RATE_LIMIT_MAX)
  /\ o.resp.status = 204

\* C9: whatever fails (store read, store write, verifier, email sender,
\* configuration), the handler ends with one response whose status is one
\* of 200, 204, 400, 403, 405, 413, 429, 500; nothing escapes it.
StatusCodes == {200, 204, 400, 403, 405, 413, 429, 500}
C9_AlwaysOneResponse ==
  /\ Returned => o.resp.status \in StatusCodes
  /\ ~Returned => o.resp = NoResponse

C9_Witness ==
  /\ Returned
  /\ o.threw = "put"
  /\ o.resp.status = 500

(***************************************************************************)
(* The fields of the model's bodies, trimmed, as the claims speak of them. *)
(***************************************************************************)
PlainObject(b) ==
  /\ Bodies[b].rawLen <= MAX_BODY_BYTES
  /\ Bodies[b].parsed.k = "object"
  /\ \A v \in {Bodies[b].parsed.name, Bodies[b].parsed.email,
               Bodies[b].parsed.message, Bodies[b].parsed.turnstileToken} :
       v.t = "string" /\ trim(v.s) # <<>>
NameLen == [b \in BodyIds |-> Len(OrEmptyTrim(Bodies[b].parsed.name))]
MessageLen == [b \in BodyIds |-> Len(OrEmptyTrim(Bodies[b].parsed.message))]
EmailOK == [b \in BodyIds |-> isValidEmail(OrEmptyTrim(Bodies[b].parsed.email))]
PlainBodies == {b \in BodyIds : PlainObject(b)}
WellFormedBodies ==
  {b \in PlainBodies : /\ NameLen[b] \in 2..100
                       /\ EmailOK[b]
                       /\ MessageLen[b] \in 10..2000}

\* The observed request has had its body checked.
BodyChecked ==
  /\ o.body # NoBody
  /\ \/ o.pc \in {"verify", "send", "put"}
     \/ Returned /\ o.gets = 1 /\ o.threw # "get" /\ o.resp.status # 429
\* ... and the checks ended it.
RejectedByBodyChecks == Returned /\ o.verifies = 0
RejectedWith(status, text) ==
  RejectedByBodyChecks /\ o.resp.status = status /\ o.resp.text = text

\* C10: with the other fields fine, a trimmed name is accepted exactly when
\* its length is in 2..100 and a trimmed message exactly when its length is
\* in 10..2000; the first failing rule in the order name, email, message
\* gives the 400's error message.
C10_FieldValidation ==
  (BodyChecked /\ o.body \in PlainBodies) =>
    LET b == o.body
    IN  IF NameLen[b] \notin 2..100
        THEN RejectedWith(400, "Name must be between 2 and 100 characters")
        ELSE IF ~EmailOK[b]
        THEN RejectedWith(400, "Invalid email address")
        ELSE IF MessageLen[b] \notin 10..2000
        THEN RejectedWith(400, "Message must be between 10 and 2000 characters")
        ELSE ~RejectedByBodyChecks

\* The boundary lengths are among the bodies the model submits.
C10_BoundariesCovered ==
  /\ {1, 2, 100, 101} \subseteq {NameLen[b] : b \in PlainBodies}
  /\ {9, 10, 2000, 2001} \subseteq {MessageLen[b] : b \in PlainBodies}

C10_Witness ==
  /\ C10_BoundariesCovered
  /\ BodyChecked
  /\ o.body \in PlainBodies
  /\ NameLen[o.body] = 1
  /\ ~EmailOK[o.body]
  /\ MessageLen[o.body] = 9
  /\ RejectedWith(400, "Name must be between 2 and 100 characters")

\* C2: the claim as stated: a valid submission (POST, permitted or absent
\* origin, configuration present, well-formed fields, verifier success with
\* an allow-listed hostname, count read below 5) dispatches exactly one
\* email and leaves the counter at the value it read plus 1.
ValidSubmission ==
  /\ o.method = "POST"
  /\ ~ForbiddenOrigin(o.origin)
  /\ o.env = Bindings
  /\ o.body \in WellFormedBodies
  /\ o.verdict.k = "json"
  /\ o.verdict.success
  /\ o.verdict.hostname \in ALLOWED_TURNSTILE_HOSTNAMES
  /\ o.gets = 1
  /\ ~NumGE(parseInt(o.count), RATE_LIMIT_MAX)
CountRead == OrZero(parseInt(o.count))
OneEmailAndCounterPlusOne ==
  /\ o.sends = 1
  /\ o.threw # "send"
  /\ o.puts = 1
  /\ store[ohKey].value = String(CountRead + 1)

PermittedOrigins == {origin \in Origins : ~ForbiddenOrigin(origin)}
PassingAnswers ==
  {a \in VerifierAnswers :
     a.k = "json" /\ a.success /\ a.hostname \in ALLOWED_TURNSTILE_HOSTNAMES}
AllIdle == \A r \in Reqs : reqs[r].pc = "idle"

SeqArrive ==
  \E origin \in PermittedOrigins, h \in {""} :
    /\ AllIdle
    /\ started < MaxStarted
    /\ ArriveStep(Observed, origin, "POST", Bindings, h, NoBody)
    /\ started' = started + 1
    /\ UNCHANGED <<emails, faulted, overlap, rejected, age>>
SeqGet ==
  \E ok \in BOOLEAN :
    /\ GetStep(Observed, ok)
    /\ faulted' = (faulted \/ ~ok)
    /\ UNCHANGED <<started, emails, overlap, rejected, age>>
SeqText == \E b \in WellFormedBodies : TextStep(Observed, b) /\ UNCHANGED obs
SeqVerify == \E a \in PassingAnswers : VerifyStep(Observed, a) /\ UNCHANGED obs
SeqSend ==
  \E ok \in BOOLEAN :
    /\ SendStep(Observed, ok)
    /\ faulted' = (faulted \/ ~ok)
    /\ UNCHANGED <<started, emails, overlap, rejected, age>>
SeqPut ==
  \E ok \in BOOLEAN :
    /\ PutStep(Observed, ok)
    /\ faulted' = (faulted \/ ~ok)
    /\ UNCHANGED <<started, emails, overlap, rejected, age>>
SeqReturn == ReturnStep(Observed) /\ UNCHANGED obs

NextSeq == SeqArrive \/ SeqGet \/ SeqText \/ SeqVerify \/ SeqSend \/ SeqPut \/ SeqReturn

SpecSeq == Init /\ [][NextSeq]_vars

\* C3: the claim as stated: of valid submissions handled one after another
\* from no stored entry, the 1st to 5th each return 200 and dispatch one
\* email, and the 6th returns 429 without verifier call, email or write.
SequentialOutcome ==
  /\ started \in 1..RATE_LIMIT_MAX =>
       (o.resp.status = 200 /\ o.sends = 1 /\ o.threw # "send")
  /\ started = RATE_LIMIT_MAX + 1 =>
       (o.resp.status = 429 /\ o.verifies = 0 /\ o.sends = 0 /\ o.puts = 0)

ScenarioBody == CHOOSE b \in BodyIds : Bodies[b] = GoodBody(Jo, JoMail, Rep("x", 24))
RaceArrive ==
  \E r \in Reqs, h \in AddressHeaders :
    /\ emails < MaxEmails
    /\ ArriveStep(r, "https://raduhhr.xyz", "POST", Bindings, h, NoBody)
    /\ overlap' = IF Cardinality(InFlight) + 1 > overlap
                  THEN Cardinality(InFlight) + 1 ELSE overlap
    /\ UNCHANGED <<started, emails, faulted, rejected, age>>
RaceGet == \E r \in Reqs : GetStep(r, TRUE) /\ UNCHANGED obs
RaceText == \E r \in Reqs : TextStep(r, ScenarioBody) /\ UNCHANGED obs
RaceVerify ==
  \E r \in Reqs : VerifyStep(r, Verdict("json", TRUE, "raduhhr.xyz")) /\ UNCHANGED obs
RaceSend ==
  \E r \in Reqs :
    /\ SendStep(r, TRUE)
    /\ emails' = emails + 1
    /\ UNCHANGED <<started, faulted, overlap, rejected, age>>
RacePut == \E r \in Reqs : PutStep(r, TRUE) /\ UNCHANGED obs
RaceReturn == \E r \in Reqs : ReturnStep(r) /\ UNCHANGED obs

NextRace == RaceArrive \/ RaceGet \/ RaceText \/ RaceVerify \/ RaceSend \/ RacePut \/ RaceReturn

SpecRace == Init /\ [][NextRace]_vars

\* C4: with at most k requests of one IP ever in flight together, at most
\* 5 + k emails are dispatched for that IP in one window.
C4_AtMostLimitPlusInFlight == emails <= RATE_LIMIT_MAX + overlap

(***************************************************************************)
(* SpecResubmit: POST requests from one IP, one after another, each with   *)
(* a body fixed when it arrives; the collaborators may fail.  rejected     *)
(* remembers the last request that was turned away as malformed.           *)
(***************************************************************************)
MalformedErrors ==
  { "Payload too large", "Invalid JSON", "All fields are required",
    "Name must be between 2 and 100 characters", "Invalid email address",
    "Message must be between 10 and 2000 characters" }
RejectedAsMalformed ==
  Returned /\ o.resp.status \in {400, 413} /\ o.resp.text \in MalformedErrors

ResubmitArrive ==
  \E origin \in PermittedOrigins, h \in AddressHeaders, b \in BodyIds :
    /\ AllIdle
    /\ ArriveStep(Observed, origin, "POST", Bindings, h, b)
    /\ UNCHANGED obs
ResubmitGet == \E ok \in BOOLEAN : GetStep(Observed, ok) /\ UNCHANGED obs
ResubmitText == \E b \in BodyIds : TextStep(Observed, b) /\ UNCHANGED obs
ResubmitVerify == \E a \in VerifierAnswers : VerifyStep(Observed, a) /\ UNCHANGED obs
ResubmitSend == \E ok \in BOOLEAN : SendStep(Observed, ok) /\ UNCHANGED obs
ResubmitPut == \E ok \in BOOLEAN : PutStep(Observed, ok) /\ UNCHANGED obs
ResubmitReturn ==
  /\ ReturnStep(Observed)
  /\ rejected' = IF RejectedAsMalformed
                 THEN [ip |-> o.ip, body |-> o.body, status |-> o.resp.status,
                       text |-> o.resp.text]
                 ELSE rejected
  /\ UNCHANGED <<started, emails, faulted, overlap, age>>

NextResubmit ==
  \/ ResubmitArrive \/ ResubmitGet \/ ResubmitText \/ ResubmitVerify
  \/ ResubmitSend \/ ResubmitPut \/ ResubmitReturn

SpecResubmit == Init /\ [][NextResubmit]_vars

NoEffects == o.verifies = 0 /\ o.sends = 0 /\ o.puts = 0
Resubmission == Returned /\ o.body = rejected.body /\ o.ip = rejected.ip
SameRejection == o.resp.status = rejected.status /\ o.resp.text = rejected.text

\* C6: the claim as stated: a request rejected as malformed calls no
\* verifier, sends no email and writes no counter, and the same payload
\* submitted again gets the same rejection and leaves the store unchanged.
C6_Original ==
  /\ RejectedAsMalformed => NoEffects
  /\ Resubmission => (SameRejection /\ NoEffects)

\* C6, amended: ... submitted again it gets the same rejection unless the
\* rate-limit step ends the request first (429 once the IP's count has
\* reached 5, 500 when the store read fails); in every case it calls no
\* verifier, sends no email and leaves the store unchanged.
C6_MalformedRejectionIsIdempotent ==
  /\ RejectedAsMalformed => NoEffects
  /\ Resubmission => NoEffects
  /\ (Resubmission /\ o.threw # "get" /\ o.resp.status # 429) => SameRejection

C6_Witness ==
  /\ Resubmission
  /\ RejectedAsMalformed
  /\ SameRejection
  /\ o.resp.text = "Message must be between 10 and 2000 characters"
  /\ store[ohKey].value = "2"

(***************************************************************************)
(* The stored count of a key, absent counted as 0.                         *)
(***************************************************************************)
StoredCount(entries, key) == OrZero(parseInt(entries[key].value))

\* C11: while no entry expires, a write never lowers the stored count of an
\* IP, however the requests of that IP interleave.
C11_CountNeverDecreases ==
  [][\A key \in Keys : StoredCount(store', key) >= StoredCount(store, key)]_vars

(***************************************************************************)
(* What the observed request did to the store and to the mailbox.          *)
(***************************************************************************)
\* its RATE_LIMITER.put resolved
Wrote == o.puts = 1 /\ o.threw # "put"
\* its sesClient.send resolved
Dispatched == o.sends = 1 /\ o.threw # "send"

\* C12: the counter is written only after the email send of the same
\* request has succeeded: a request whose send fails is answered 500 and
\* never calls put, and a request answered with another status than 200
\* has written nothing.
C12_WriteOnlyAfterSuccessfulSend ==
  /\ (o.pc = "put" \/ o.puts > 0) => Dispatched
  /\ (Returned /\ o.threw = "send") => (o.resp.status = 500 /\ o.puts = 0)
  /\ (Returned /\ o.resp.status # 200) => ~Wrote

C12_Witness ==
  /\ Returned
  /\ o.threw = "send"
  /\ o.sends = 1
  /\ o.resp.status = 500
  /\ o.count = "2"
  /\ store[ohKey].value = "2"

\* C13: the email send of a request is issued only after the verifier call
\* of that request has answered success:true with an allow-listed hostname,
\* and after its rate-limit check and its field checks have passed; while
\* the verifier call is pending no send has been issued.
C13_SendOnlyAfterVerification ==
  /\ (o.pc = "send" \/ o.sends > 0) => (ValidSubmission /\ o.verifies = 1)
  /\ o.pc = "verify" => (o.sends = 0 /\ o.verifies = 0)

C13_Witness ==
  /\ o.pc = "send"
  /\ o.verifies = 1
  /\ o.verdict = Verdict("json", TRUE, "raduhhr.xyz")
  /\ NameLen[o.body] = 100
  /\ o.count = "4"

(***************************************************************************)
(* The steps in the order the claims give them, read off the request's     *)
(* inputs and the collaborators' answers.                                  *)
(***************************************************************************)
\* a field that is absent, or empty once trimmed
FieldMissing(v) == v.t \in {"undefined", "falsy"} \/ (v.t = "string" /\ trim(v.s) = <<>>)
AnyFieldMissing ==
  [b \in BodyIds |->
     \E v \in {Bodies[b].parsed.name, Bodies[b].parsed.email,
               Bodies[b].parsed.message, Bodies[b].parsed.turnstileToken} :
       FieldMissing(v)]
\* the count the rate-limit step meets: the one read, else the one stored
CountMet == IF o.gets = 1 /\ o.threw # "get" THEN o.count ELSE store[ohKey].value

FirstFailingStep ==
  IF ForbiddenOrigin(o.origin) THEN 403
  ELSE IF o.method # "POST" THEN 405
  ELSE IF ~(Bindings \subseteq o.env) THEN 500
  ELSE IF NumGE(parseInt(CountMet), RATE_LIMIT_MAX) THEN 429
  ELSE IF Bodies[o.body].rawLen > MAX_BODY_BYTES THEN 413
  ELSE IF Bodies[o.body].parsed.k = "SyntaxError" THEN 400
  ELSE IF AnyFieldMissing[o.body] THEN 400
  ELSE IF NameLen[o.body] \notin 2..100 \/ ~EmailOK[o.body]
          \/ MessageLen[o.body] \notin 10..2000 THEN 400
  ELSE IF ~(o.verdict.k = "json" /\ o.verdict.success) THEN 400
  ELSE IF o.verdict.hostname \notin ALLOWED_TURNSTILE_HOSTNAMES THEN 400
  ELSE IF o.threw = "send" THEN 500
  ELSE 200

\* C14: the status of a response is that of the first failing step in the
\* order origin (403), method (405), configuration (500), rate limit (429),
\* body size (413), JSON parse (400), field presence (400), field
\* validation (400), token verification (400), hostname (400), email send
\* (500).  A store operation that throws is no step of this list: the
\* requests that meet one are left aside.
C14_FirstFailingStepDecides ==
  (Returned /\ o.method # "OPTIONS" /\ o.threw \notin {"get", "put"}) =>
    o.resp.status = FirstFailingStep

(***************************************************************************)
(* SpecWindow: submissions of one IP while time passes.  Time advances in  *)
(* ticks of a fraction of the window; the store counts an entry's ttl down *)
(* and drops the entry when it has run out.  age is the number of ticks    *)
(* since the entry was created and since it was last written.              *)
(***************************************************************************)
TickSeconds == RATE_LIMIT_WINDOW \div TicksPerWindow
WindowKey == CHOOSE k \in Keys : \E h \in AddressHeaders : k = rateLimitKey(ClientIp(h))
WindowBodies == {ScenarioBody} \cup {b \in BodyIds : Bodies[b].rawLen > MAX_BODY_BYTES}
\* the verifier accepts the token, or the call throws
WindowAnswers == PassingAnswers \cup {a \in VerifierAnswers : a.k = "throw"}
Min(a, b) == IF a < b THEN a ELSE b

\* expirationTtl seconds after a put the key is gone
TickStep ==
  /\ NoneDone
  /\ store' = [k \in Keys |->
                 IF store[k] = NoEntry \/ store[k].ttl <= TickSeconds
                 THEN NoEntry
                 ELSE [store[k] EXCEPT !.ttl = @ - TickSeconds]]
  /\ UNCHANGED reqs

WindowArrive ==
  \E r \in Reqs, h \in AddressHeaders :
    ArriveStep(r, "https://raduhhr.xyz", "POST", Bindings, h, NoBody) /\ UNCHANGED obs
WindowGet == \E r \in Reqs, ok \in BOOLEAN : GetStep(r, ok) /\ UNCHANGED obs
WindowText == \E r \in Reqs, b \in WindowBodies : TextStep(r, b) /\ UNCHANGED obs
WindowVerify == \E r \in Reqs, a \in WindowAnswers : VerifyStep(r, a) /\ UNCHANGED obs
WindowSend == \E r \in Reqs, ok \in BOOLEAN : SendStep(r, ok) /\ UNCHANGED obs
WindowPut ==
  \E r \in Reqs, ok \in BOOLEAN :
    /\ PutStep(r, ok)
    /\ age' = IF ~ok THEN age
              ELSE [first |-> IF store[WindowKey] = NoEntry THEN 0 ELSE age.first,
                    last |-> 0]
    /\ UNCHANGED <<started, emails, faulted, overlap, rejected>>
WindowReturn == \E r \in Reqs : ReturnStep(r) /\ UNCHANGED obs
WindowTick ==
  /\ store[WindowKey] # NoEntry
  /\ TickStep
  /\ age' = IF store'[WindowKey] = NoEntry THEN NoAge
            ELSE [first |-> Min(age.first + 1, MaxAge), last |-> age.last + 1]
  /\ UNCHANGED <<started, emails, faulted, overlap, rejected>>

NextWindow ==
  \/ WindowArrive \/ WindowGet \/ WindowText \/ WindowVerify
  \/ WindowSend \/ WindowPut \/ WindowReturn \/ WindowTick

SpecWindow == Init /\ [][NextWindow]_vars

\* C15: a submission answered 200 has written the counter with the full
\* window as its TTL, and the entry's remaining TTL is always the window
\* less the time since the most recent successful write, whenever the entry
\* was created: nothing else than a successful submission extends it.
C15_TtlRunsFromLastSuccess ==
  /\ (Returned /\ o.resp.status = 200) =>
       (store[WindowKey] # NoEntry /\ store[WindowKey].ttl = RATE_LIMIT_WINDOW)
  /\ store[WindowKey] # NoEntry =>
       store[WindowKey].ttl = RATE_LIMIT_WINDOW - age.last * TickSeconds

\* a window and more after the entry's first write the entry is still there,
\* and a request answered 429 has not extended it
C15_Witness ==
  /\ store[WindowKey] # NoEntry
  /\ age.first > TicksPerWindow
  /\ age.last > 0
  /\ store[WindowKey].ttl < RATE_LIMIT_WINDOW
  /\ Returned
  /\ o.resp.status = 429

\* the verifier call threw, answered with a non-OK status, answered with
\* what is no JSON, or answered success:false
VerificationFailed ==
  /\ o.verifies = 1
  /\ \/ o.verdict.k \in {"throw", "notok", "badjson"}
     \/ o.verdict.k = "json" /\ ~o.verdict.success

\* C16: a verifier call that throws, answers with a non-success HTTP
\* status, answers with an unparsable body or answers success:false makes
\* the response 400 (never 500), with no email sent and no counter written.
C16_VerifierFailureIs400 ==
  (Returned /\ VerificationFailed) =>
    /\ o.resp.status = 400
    /\ o.resp.text = "Security verification failed"
    /\ o.sends = 0
    /\ o.puts = 0

C16_Witness ==
  /\ Returned
  /\ o.verifies = 1
  /\ o.verdict.k = "badjson"
  /\ o.resp.status = 400
  /\ o.threw = "none"

\* the request gets past the origin, method and configuration checks
PassesGate ==
  /\ ~ForbiddenOrigin(o.origin)
  /\ o.method = "POST"
  /\ Bindings \subseteq o.env
AtMostOnceEach == o.gets <= 1 /\ o.puts <= 1 /\ o.verifies <= 1 /\ o.sends <= 1

\* C17: the claim as stated: every request makes exactly one store read, at
\* most one store write, at most one verifier call and at most one send.
C17_Original == Returned => (o.gets = 1 /\ AtMostOnceEach)

\* C17, amended: a request makes exactly one store read when it is a POST
\* from a permitted (or absent) origin with the configuration present, and
\* none otherwise; it makes at most one store write, one verifier call and
\* one send, and a failed verification or a failed send ends it at once.
C17_CallsAtMostOnce ==
  /\ AtMostOnceEach
  /\ Returned => o.gets = (IF PassesGate THEN 1 ELSE 0)
  /\ VerificationFailed => Returned
  /\ o.threw = "send" => Returned

C17_Witness ==
  /\ Returned
  /\ PassesGate
  /\ o.gets = 1
  /\ o.verifies = 1
  /\ o.sends = 1
  /\ o.threw = "send"
  /\ o.puts = 0

\* the body is within the size limit and JSON.parse accepts it
ParsesAsJson(b) ==
  Bodies[b].rawLen <= MAX_BODY_BYTES /\ Bodies[b].parsed.k # "SyntaxError"

\* C18: whatever JSON value the body is (an object, null, a number, a
\* string, an array, an object with fields that are no strings), when one
\* of name, email, message, turnstileToken is absent or empty after
\* trimming the response is 400 "All fields are required".
C18_MissingFieldIs400 ==
  (BodyChecked /\ ParsesAsJson(o.body) /\ AnyFieldMissing[o.body]) =>
    RejectedWith(400, "All fields are required")

\* C19: from an empty store that only the handler writes, every stored
\* value is the decimal string of an integer in 1..5, however the requests
\* interleave: a request that is past its rate-limit check read a count
\* below 5, and what it writes is that count plus 1.
C19_StoredCountInRange ==
  /\ \A key \in Keys :
       store[key] # NoEntry =>
         \E n \in 1..RATE_LIMIT_MAX : store[key].value = String(n)
  /\ \A r \in Reqs :
       reqs[r].pc \in {"text", "verify", "send", "put"} =>
         /\ ~NumGE(parseInt(reqs[r].count), RATE_LIMIT_MAX)
         /\ newCount(reqs[r]) \in 1..RATE_LIMIT_MAX

C19_Witness ==
  /\ o.pc = "put"
  /\ store[ohKey].value = String(RATE_LIMIT_MAX)
  /\ o.count = String(RATE_LIMIT_MAX - 1)

\* C20: an email is dispatched for a request exactly when the request is
\* answered 200, also when a store read or a store write fails.
C20_EmailIffOk == Returned => (Dispatched <=> o.resp.status = 200)

(***************************************************************************)
(* SpecIdentities: valid submissions of two client identities, one with    *)
(* CF-Connecting-IP and one without it ("unknown"), interleaved; no entry  *)
(* expires; the store read may fail.                                       *)
(***************************************************************************)
IdentityArrive ==
  \E r \in Reqs, h \in IpHeaders :
    ArriveStep(r, "https://raduhhr.xyz", "POST", Bindings, h, NoBody) /\ UNCHANGED obs
IdentityGet == \E r \in Reqs, ok \in BOOLEAN : GetStep(r, ok) /\ UNCHANGED obs
IdentityText == \E r \in Reqs : TextStep(r, ScenarioBody) /\ UNCHANGED obs
IdentityVerify == \E r \in Reqs, a \in PassingAnswers : VerifyStep(r, a) /\ UNCHANGED obs
IdentitySend == \E r \in Reqs : SendStep(r, TRUE) /\ UNCHANGED obs
IdentityPut == \E r \in Reqs : PutStep(r, TRUE) /\ UNCHANGED obs
IdentityReturn == \E r \in Reqs : ReturnStep(r) /\ UNCHANGED obs

NextIdentities ==
  \/ IdentityArrive \/ IdentityGet \/ IdentityText \/ IdentityVerify
  \/ IdentitySend \/ IdentityPut \/ IdentityReturn

SpecIdentities == Init /\ [][NextIdentities]_vars

\* the count read is the one stored under the request's own key
ReadsOwnEntry ==
  \A r \in Reqs :
    (reqs[r].pc = "get" /\ reqs'[r].pc = "text") =>
      reqs'[r].count = store[rateLimitKey(reqs[r].ip)].value
\* an entry changes only by the put of a request of that identity
WritesOwnEntry ==
  \A key \in Keys :
    store'[key] # store[key] =>
      \E r \in Reqs : reqs[r].pc = "put" /\ rateLimitKey(reqs[r].ip) = key
\* a 429 is due to the count stored under the request's own key
LimitedByOwnEntry ==
  (Returned /\ o.resp.status = 429) =>
    NumGE(parseInt(store[ohKey].value), RATE_LIMIT_MAX)

\* C21: a request reads and writes only the entry keyed by its own client
\* identity (the CF-Connecting-IP header, or "unknown" without it); the
\* entries of the other identities are left as they are, and a 429 is given
\* only when the request's own identity has reached the limit.
C21_OwnEntryOnly ==
  /\ []LimitedByOwnEntry
  /\ [][ReadsOwnEntry /\ WritesOwnEntry]_vars

\* "unknown" is at the limit and a submission with an address is answered 200
C21_Witness ==
  /\ Returned
  /\ o.ip \in AddressHeaders
  /\ o.resp.status = 200
  /\ store[ohKey].value = "1"
  /\ store[rateLimitKey("unknown")].value = String(RATE_LIMIT_MAX)

====
